---- MODULE Spec2Model ----
(***************************************************************************)
(* Model of the job registry of bonsaidb-local:                            *)
(*   crates/bonsaidb-local/src/jobs/manager/jobs.rs  (struct Jobs<Key>)    *)
(* The registry holds the identifier counter, the id -> waiters map, the   *)
(* key -> id map and the work queue.  Its four mutating methods (enqueue,  *)
(* create_new_task_handle, lookup_or_enqueue, job_completed) take          *)
(* `&mut self`, so each call is one atomic step.  The worker pool that     *)
(* drains the queue and the Executable's run step live outside this file   *)
(* and are modelled from their documented contract.                        *)
(***************************************************************************)
EXTENDS Integers, Sequences, FiniteSets, TLC

\* ------------------------------------------------------------------ bounds
\* Width of the identifier counter in bits (u64 in the code, jobs.rs:14).
IdBits == 1
\* Number of enqueue calls (identifier allocations) explored.
MaxJobs == 3
\* Number of Handles (one-shot channels) explored.
MaxHandles == 3
\* Number of distinct dedup keys.
MaxKey == 2
\* Number of distinct payload values a job can return (as Ok or as Err).
MaxVal == 1
\* Number of job_completed calls made by someone other than the Executable.
MaxDirect == 1
\* A second, wider counter: with WideBits bits the counter takes MaxJobs
\* allocations without wrapping, with IdBits bits it wraps within them.
WideBits == 2

\* ------------------------------------------------------------- value sets
KeyNames == <<"x", "y", "z">>
Keys == {KeyNames[i] : i \in 1 .. MaxKey}
None == "None"
OptKeys == Keys \cup {None}
\* A job type stands for the pair (Output, Error) of a Job implementation.
Types == {"A", "B"}
Vals == 1 .. MaxVal
\* Result<T, E> values handed to job_completed.
Ok(v) == [tag |-> "Ok", v |-> v]
Err(e) == [tag |-> "Err", v |-> e]
\* What the receiving end of a Handle's channel has seen: nothing yet, the
\* result Result<T, Arc<E>>, or RecvError once its sender is gone unsent.
Pending == [tag |-> "Pending", v |-> 0]
RecvError == [tag |-> "RecvError", v |-> 0]
ErrArc(e) == [tag |-> "ErrArc", v |-> e]
\* The owner has dropped the Handle, and with it the receiving end.
Dropped == [tag |-> "Dropped", v |-> 0]
Results == {Ok(v) : v \in Vals} \cup {Err(e) : e \in Vals}

\* ------------------------------------------------------------------ state
VARIABLES
    bits,             \* the width w of Jobs.last_task_id (64 in the code), fixed
                      \* when the registry is constructed
    last_task_id,     \* Jobs.last_task_id
    result_senders,   \* Jobs.result_senders : Id -> Vec<Box<dyn AnySender>>
    keyed_jobs,       \* Jobs.keyed_jobs     : Key -> Id
    queue,            \* the flume channel between Jobs.queuer and Jobs.queue
    handles,          \* every Handle handed out, by creation order
    running,          \* Executables a worker has dequeued and not yet finished
    aborted,          \* Executables destroyed without calling job_completed
    panicked,         \* some job_completed call panicked on its unwrap
    allocs,           \* history: number of enqueue calls so far
    issued,           \* history: the ids enqueue has returned so far
    released,         \* history: per key, the id of the last job_completed(id, Some(key))
                      \*          and whether lookup_or_enqueue has been called for the
                      \*          key since (a set of at most one record)
    strict,           \* history: so far every keyed job went through
                      \*          lookup_or_enqueue and every job_completed call was
                      \*          made by a dequeued Executable with its own id and key
    direct,           \* history: number of direct job_completed calls so far
    completed,        \* history: the ids job_completed has been called for so far
    call              \* the enqueue / lookup_or_enqueue call that holds `&mut self`
                      \* part-way, when calls are followed statement by statement

vars == <<bits, last_task_id, result_senders, keyed_jobs, queue, handles, running,
          aborted, panicked, allocs, issued, released, strict, direct,
          completed, call>>

\* The counter counts modulo 2^w; Id(n) for n in 0 .. 2^w - 1.
Modulus == 2 ^ bits
Ids == 0 .. (Modulus - 1)

\* ------------------------------------------------------- map primitives
\* HashMap::insert
Insert(m, k, v) == [x \in (DOMAIN m) \cup {k} |-> IF x = k THEN v ELSE m[x]]
\* HashMap::remove
Remove(m, k) == [x \in (DOMAIN m) \ {k} |-> m[x]]
EmptyMap == [x \in {} |-> None]

\* The registry and the handles as one value, so that the methods can be
\* written as functions from state to state the way the code composes them.
St == [last_task_id |-> last_task_id, result_senders |-> result_senders,
       keyed_jobs |-> keyed_jobs, queue |-> queue, handles |-> handles,
       panicked |-> panicked]

\* No call is part-way through the registry.
Idle == [step |-> "idle", id |-> 0, ty |-> "A", key |-> None, insert |-> FALSE]

\* Jobs::default
DefaultJobs == [last_task_id |-> 0, result_senders |-> EmptyMap,
                keyed_jobs |-> EmptyMap, queue |-> <<>>, handles |-> <<>>,
                panicked |-> FALSE]

\* --------------------------------------------------------------- methods
\* A counter that is never advanced.
wrapping_add_stuck(x, y) == x

\* A counter that stops at its maximum instead of wrapping.
saturating_add(x, y) == IF x + y >= Modulus THEN Modulus - 1 ELSE x + y

\* u64::wrapping_add on the identifier counter (jobs.rs:64)
wrapping_add(x, y) == (x + y) % Modulus

\* Box::new(ManagedJob { id, job, key, manager }) (jobs.rs:67-72).  A job is
\* [ty, n, key]: its type, the serial that tells job objects apart, and what
\* Keyed::key() returns (None for a job that is not Keyed).
ManagedJob(id, job, key) == [id |-> id, job |-> job, key |-> key]

\* Handle { id, manager, receiver } over a fresh oneshot::channel()
\* (jobs.rs:83, 87-91).  rx is what the receiver has seen so far.
NewHandle(id, ty) == [id |-> id, ty |-> ty, rx |-> Pending]

\* self.result_senders.entry(id).or_insert_with(Vec::default) (jobs.rs:84)
entry_or_default(m, id) == IF id \in DOMAIN m THEN m[id] ELSE <<>>

\* A create_new_task_handle that overwrites the waiter list of the id.
create_new_task_handle_replaces(s, id, ty) ==
    [s EXCEPT !.result_senders = Insert(@, id, <<Len(s.handles) + 1>>),
              !.handles = Append(@, NewHandle(id, ty))]

\* Jobs::create_new_task_handle.  The boxed sender is named by the index of
\* the Handle that owns the other end of its channel; its erased type is the
\* Handle's type.  The returned Handle is the last element of handles.
create_new_task_handle(s, id, ty) ==
    LET h == Len(s.handles) + 1
        senders == entry_or_default(s.result_senders, id)
    IN  [s EXCEPT !.result_senders = Insert(@, id, Append(senders, h)),
                  !.handles = Append(@, NewHandle(id, ty))]

\* The Handle a call has just returned.
Returned(s) == s.handles[Len(s.handles)]

\* An enqueue whose queue hands out the newest Executable first.
enqueue_pushes_front(s, job, key) ==
    LET id == wrapping_add(s.last_task_id, 1)
        s1 == [s EXCEPT !.last_task_id = id,
                        !.queue = <<ManagedJob(id, job, key)>> \o @]
    IN  create_new_task_handle(s1, id, job.ty)

\* An enqueue that computes the next id and does not store it in the counter.
enqueue_keeps_counter(s, job, key) ==
    LET id == wrapping_add(s.last_task_id, 1)
        s1 == [s EXCEPT !.queue = Append(@, ManagedJob(id, job, key))]
    IN  create_new_task_handle(s1, id, job.ty)

\* The first statements of Jobs::enqueue (jobs.rs:64-73): the counter is
\* advanced and the Executable is sent on the queue.
enqueue_push(s, job, key) ==
    LET id == wrapping_add(s.last_task_id, 1)
    IN  [s EXCEPT !.last_task_id = id,
                  !.queue = Append(@, ManagedJob(id, job, key))]

\* Jobs::enqueue
enqueue(s, job, key) ==
    LET s1 == enqueue_push(s, job, key)
    IN  create_new_task_handle(s1, s1.last_task_id, job.ty)

\* lookup_or_enqueue that never consults keyed_jobs: every call enqueues.
lookup_or_enqueue_always_enqueues(s, job) ==
    LET s1 == enqueue(s, job, job.key)
    IN  [s1 EXCEPT !.keyed_jobs = Insert(@, job.key, Returned(s1).id)]

\* lookup_or_enqueue that forgets to record the key of the job it enqueues.
lookup_or_enqueue_no_insert(s, job) ==
    IF job.key \in DOMAIN s.keyed_jobs
    THEN create_new_task_handle(s, s.keyed_jobs[job.key], job.ty)
    ELSE enqueue(s, job, job.key)

\* lookup_or_enqueue that records the key under the id that was current
\* before its enqueue.
lookup_or_enqueue_maps_stale(s, job) ==
    IF job.key \in DOMAIN s.keyed_jobs
    THEN create_new_task_handle(s, s.keyed_jobs[job.key], job.ty)
    ELSE LET s1 == enqueue(s, job, job.key)
         IN  [s1 EXCEPT !.keyed_jobs = Insert(@, job.key, s.last_task_id)]

\* Jobs::lookup_or_enqueue
lookup_or_enqueue(s, job) ==
    LET key == job.key
    IN  IF key \in DOMAIN s.keyed_jobs
        THEN create_new_task_handle(s, s.keyed_jobs[key], job.ty)
        ELSE LET s1 == enqueue(s, job, key)
             IN  [s1 EXCEPT !.keyed_jobs = Insert(@, key, Returned(s1).id)]

\* A job_completed that leaves the key mapping in place.
remove_key_never(keyed, id, key) == keyed

\* A job_completed that removes the mapping only when it is the one of id.
remove_key_checked(keyed, id, key) ==
    IF key # None /\ key \in DOMAIN keyed /\ keyed[key] = id
    THEN Remove(keyed, key) ELSE keyed

\* if let Some(key) = key { self.keyed_jobs.remove(key); } (jobs.rs:115-117)
remove_key(keyed, id, key) == IF key # None THEN Remove(keyed, key) ELSE keyed

\* result.map_err(Arc::new) (jobs.rs:120): an error is moved into one shared
\* Arc, a success value is left as it is.
map_err_Arc(result) ==
    IF result.tag = "Err" THEN ErrArc(result.v) ELSE result

\* downcast_mut::<Option<oneshot::Sender<Result<T, Arc<E>>>>>() (jobs.rs:122-124)
\* is Some exactly when the boxed sender was created with the same (T, E).
downcast_ok(sender_ty, ty) == sender_ty = ty

\* oneshot::Sender::send (jobs.rs:127): the value reaches the receiver unless
\* the receiver is gone; the Err it then returns is dropped.
send(hs, h, value) ==
    IF hs[h].rx = Pending THEN [hs EXCEPT ![h].rx = value] ELSE hs

\* Dropping a oneshot::Sender unsent: a waiting receiver sees RecvError.
drop_sender(hs, h) ==
    IF hs[h].rx = Pending THEN [hs EXCEPT ![h].rx = RecvError] ELSE hs

RECURSIVE drop_all(_, _)
drop_all(hs, senders) ==
    IF senders = <<>> THEN hs
    ELSE drop_all(drop_sender(hs, Head(senders)), Tail(senders))

\* The loop of job_completed (jobs.rs:121-129) over the removed Vec.  A failed
\* downcast makes unwrap() panic: unwinding drops the sender at hand and the
\* rest of the Vec unsent.
RECURSIVE fan_out(_, _, _, _)
fan_out(hs, senders, ty, result) ==
    IF senders = <<>> THEN [handles |-> hs, panicked |-> FALSE]
    ELSE IF downcast_ok(hs[Head(senders)].ty, ty)
         THEN fan_out(send(hs, Head(senders), result), Tail(senders), ty, result)
         ELSE [handles |-> drop_all(hs, senders), panicked |-> TRUE]

\* A job_completed that, finding no waiter list for id, drains the list of
\* some other id instead.
job_completed_any_list(s, id, key, ty, result) ==
    LET s1 == [s EXCEPT !.keyed_jobs = remove_key(@, id, key)]
        j == IF id \in DOMAIN s1.result_senders \/ DOMAIN s1.result_senders = {}
             THEN id
             ELSE CHOOSE other \in DOMAIN s1.result_senders : TRUE
    IN  IF j \in DOMAIN s1.result_senders
        THEN LET out == fan_out(s1.handles, s1.result_senders[j], ty,
                                map_err_Arc(result))
             IN  [s1 EXCEPT !.result_senders = Remove(@, j),
                            !.handles = out.handles,
                            !.panicked = @ \/ out.panicked]
        ELSE s1

\* A job_completed that sends to the waiters of id and leaves their list in
\* result_senders.
job_completed_keeps_list(s, id, key, ty, result) ==
    LET s1 == [s EXCEPT !.keyed_jobs = remove_key(@, id, key)]
    IN  IF id \in DOMAIN s1.result_senders
        THEN LET out == fan_out(s1.handles, s1.result_senders[id], ty,
                                map_err_Arc(result))
             IN  [s1 EXCEPT !.handles = out.handles,
                            !.panicked = @ \/ out.panicked]
        ELSE s1

\* A job_completed that does nothing for a job nobody waits for any more.
job_completed_skips_forgotten(s, id, key, ty, result) ==
    IF /\ id \in DOMAIN s.result_senders
       /\ \A i \in DOMAIN s.result_senders[id] :
             s.handles[s.result_senders[id][i]].rx = Dropped
    THEN s
    ELSE LET s1 == [s EXCEPT !.keyed_jobs = remove_key(@, id, key)]
         IN  IF id \in DOMAIN s1.result_senders
             THEN [s1 EXCEPT !.result_senders = Remove(@, id),
                             !.handles = fan_out(s1.handles, s1.result_senders[id],
                                                 ty, map_err_Arc(result)).handles]
             ELSE s1

\* Jobs::job_completed::<T, E>, ty standing for (T, E)
job_completed(s, id, key, ty, result) ==
    LET s1 == [s EXCEPT !.keyed_jobs = remove_key(@, id, key)]
    IN  IF id \in DOMAIN s1.result_senders
        THEN LET senders == s1.result_senders[id]
                 out == fan_out(s1.handles, senders, ty, map_err_Arc(result))
             IN  [s1 EXCEPT !.result_senders = Remove(@, id),
                            !.handles = out.handles,
                            !.panicked = @ \/ out.panicked]
        ELSE s1

\* ---------------------------------------------------------------- actions
\* Jobs::default with a counter of w bits, and nothing submitted yet.
Construct(w) ==
    /\ bits = w
    /\ last_task_id = DefaultJobs.last_task_id
    /\ result_senders = DefaultJobs.result_senders
    /\ keyed_jobs = DefaultJobs.keyed_jobs
    /\ queue = DefaultJobs.queue
    /\ handles = DefaultJobs.handles
    /\ panicked = DefaultJobs.panicked
    /\ running = {}
    /\ aborted = {}
    /\ allocs = 0
    /\ issued = {}
    /\ released = [k \in Keys |-> {}]
    /\ strict = TRUE
    /\ direct = 0
    /\ completed = {}
    /\ call = Idle

Init == Construct(IdBits)

\* The same program with either counter width.
InitWidths == \E w \in {IdBits, WideBits} : Construct(w)

\* The registry after a method call.
Commit(s) ==
    /\ last_task_id' = s.last_task_id
    /\ result_senders' = s.result_senders
    /\ keyed_jobs' = s.keyed_jobs
    /\ queue' = s.queue
    /\ handles' = s.handles
    /\ panicked' = s.panicked

\* The job object a caller submits next.
NewJob(ty, key) == [ty |-> ty, n |-> allocs + 1, key |-> key]

\* History of identifier allocation: a call that pushed onto the queue is a
\* call that ran enqueue.
Allocated(s) ==
    IF Len(s.queue) > Len(queue)
    THEN /\ allocs' = allocs + 1
         /\ issued' = issued \cup {s.last_task_id}
    ELSE UNCHANGED <<allocs, issued>>

\* A caller calls enqueue(job, key, manager).
Enqueue(key, ty) ==
    /\ allocs < MaxJobs
    /\ Len(handles) < MaxHandles
    /\ LET s == enqueue(St, NewJob(ty, None), key)
       IN  Commit(s) /\ Allocated(s)
    /\ strict' = (strict /\ key = None)
    /\ UNCHANGED <<bits, running, aborted, released, direct, completed, call>>

\* A caller calls create_new_task_handle::<T, E>(id, manager).
CreateNewTaskHandle(id, ty) ==
    /\ Len(handles) < MaxHandles
    /\ Commit(create_new_task_handle(St, id, ty))
    /\ UNCHANGED <<bits, running, aborted, allocs, issued, released, strict, direct,
                   completed, call>>

\* A caller calls lookup_or_enqueue(job, manager) with job.key() = key.
LookupOrEnqueue(key, ty) ==
    /\ Len(handles) < MaxHandles
    /\ key \in DOMAIN keyed_jobs \/ allocs < MaxJobs
    /\ LET s == lookup_or_enqueue(St, NewJob(ty, key))
       IN  Commit(s) /\ Allocated(s)
    /\ released' = [released EXCEPT
                        ![key] = {[id |-> r.id, fresh |-> FALSE] : r \in @}]
    /\ UNCHANGED <<bits, running, aborted, strict, direct, completed, call>>

\* History kept by every job_completed call: the id it was called for and,
\* with Some(key), the key it released.
Released(id, key) ==
    /\ released' = IF key # None
                   THEN [released EXCEPT ![key] = {[id |-> id, fresh |-> TRUE]}]
                   ELSE released
    /\ completed' = completed \cup {id}

\* A caller other than the job's Executable calls job_completed directly.
JobCompleted(id, key, ty, result) ==
    /\ direct < MaxDirect
    /\ Commit(job_completed(St, id, key, ty, result))
    /\ Released(id, key)
    /\ strict' = FALSE
    /\ direct' = direct + 1
    /\ UNCHANGED <<bits, running, aborted, allocs, issued, call>>

\* A worker receives the next Executable from the queue.
Dequeue ==
    /\ queue # <<>>
    /\ running' = running \cup {Head(queue)}
    /\ queue' = Tail(queue)
    /\ UNCHANGED <<bits, last_task_id, result_senders, keyed_jobs, handles, aborted,
                   panicked, allocs, issued, released, strict, direct,
                   completed, call>>

\* The Executable's run step: the job returns `result` and the Executable
\* reports it with manager.job_completed(id, key, result).
Run(e, result) ==
    /\ e \in running
    /\ running' = running \ {e}
    /\ Commit(job_completed(St, e.id, e.key, e.job.ty, result))
    /\ Released(e.id, e.key)
    /\ UNCHANGED <<bits, aborted, allocs, issued, strict, direct, call>>

\* A dequeued Executable is destroyed without reporting: only the Executable
\* goes away, the senders stay in result_senders.
Abort(e) ==
    /\ e \in running
    /\ running' = running \ {e}
    /\ aborted' = aborted \cup {e}
    /\ UNCHANGED <<bits, last_task_id, result_senders, keyed_jobs, queue, handles,
                   panicked, allocs, issued, released, strict, direct,
                   completed, call>>

\* The program: callers submit jobs and take handles, the worker pool drains
\* the queue and every Executable reports its own completion.
Next ==
    \/ \E key \in OptKeys, ty \in Types : Enqueue(key, ty)
    \/ \E id \in Ids, ty \in Types : CreateNewTaskHandle(id, ty)
    \/ \E key \in Keys, ty \in Types : LookupOrEnqueue(key, ty)
    \/ Dequeue
    \/ \E e \in running, result \in Results : Run(e, result)

Spec == Init /\ [][Next]_vars

\* The whole public surface of Jobs: as Spec, and job_completed may also be
\* called directly, with any arguments (as the tests do).
ApiNext ==
    \/ Next
    \/ \E id \in Ids, key \in OptKeys, ty \in Types, result \in Results :
          JobCompleted(id, key, ty, result)

ApiSpec == Init /\ [][ApiNext]_vars

\* The worker-pool contract alone: key-less jobs through enqueue, keyed jobs
\* through lookup_or_enqueue, and the pool dequeues every queued Executable
\* and runs it, which reports its completion exactly once.
Finish == \E e \in running, result \in Results : Run(e, result)

PoolNext ==
    \/ \E ty \in Types : Enqueue(None, ty)
    \/ \E key \in Keys, ty \in Types : LookupOrEnqueue(key, ty)
    \/ Dequeue
    \/ Finish

PoolSpec == Init /\ [][PoolNext]_vars /\ WF_vars(Dequeue) /\ WF_vars(Finish)

\* As PoolSpec, but a dequeued Executable may also be destroyed before it
\* reports.  Every dequeued Executable is eventually either run or destroyed.
Destroy == \E e \in running : Abort(e)

AbortNext ==
    \/ PoolNext
    \/ Destroy

AbortSpec ==
    Init /\ [][AbortNext]_vars /\ WF_vars(Dequeue) /\ WF_vars(Finish \/ Destroy)

\* The owner of a Handle that has not resolved yet drops it: the receiver of
\* its channel goes away, the registry is not touched (the sender stays in
\* result_senders).
Discard(h) ==
    /\ h \in DOMAIN handles
    /\ handles[h].rx = Pending
    /\ handles' = [handles EXCEPT ![h].rx = Dropped]
    /\ UNCHANGED <<bits, last_task_id, result_senders, keyed_jobs, queue, running,
                   aborted, panicked, allocs, issued, released, strict, direct,
                   completed, call>>

\* As PoolSpec, and callers may drop the Handles they hold.
DropNext ==
    \/ PoolNext
    \/ \E h \in DOMAIN handles : Discard(h)

DropSpec == Init /\ [][DropNext]_vars /\ WF_vars(Dequeue) /\ WF_vars(Finish)

\* Any sequence of enqueue, lookup_or_enqueue and job_completed calls, the
\* latter by the Executables and by anyone else: create_new_task_handle is
\* called only from inside enqueue and lookup_or_enqueue.
CallsNext ==
    \/ \E key \in OptKeys, ty \in Types : Enqueue(key, ty)
    \/ \E key \in Keys, ty \in Types : LookupOrEnqueue(key, ty)
    \/ \E id \in Ids, key \in OptKeys, ty \in Types, result \in Results :
          JobCompleted(id, key, ty, result)
    \/ Dequeue
    \/ Finish

CallsSpec == Init /\ [][CallsNext]_vars

\* Spec and CallsSpec for either counter width.
WideSpec == InitWidths /\ [][Next]_vars

WideCallsSpec == InitWidths /\ [][CallsNext]_vars

\* ------------------------------------- calls followed statement by statement
\* A registry without the exclusion: a method starts whatever else is inside.
CanLock_unsynchronised == TRUE

\* Every method takes `&mut self` (jobs.rs:58, 78, 94, 109): a call can start
\* only when no other call is inside the registry.
CanLock == call = Idle

\* enqueue up to and including the send on the queue (jobs.rs:64-73).  From
\* here on a worker can receive the Executable, while the call still has its
\* Handle to register (and lookup_or_enqueue its key to insert).
StartPush(job, key, insert) ==
    /\ CanLock
    /\ allocs < MaxJobs
    /\ Len(handles) < MaxHandles
    /\ LET s == enqueue_push(St, job, key)
       IN  /\ Commit(s)
           /\ Allocated(s)
           /\ call' = [step |-> "pushed", id |-> s.last_task_id, ty |-> job.ty,
                       key |-> key, insert |-> insert]
    /\ UNCHANGED <<bits, running, aborted, strict, direct, completed>>

\* A caller enters enqueue(job, None, manager).
EnqueueBegins(ty) ==
    /\ StartPush(NewJob(ty, None), None, FALSE)
    /\ UNCHANGED released

\* A caller enters lookup_or_enqueue with a key that is not mapped
\* (jobs.rs:99-100, 103).
LookupBegins(key, ty) ==
    /\ key \notin DOMAIN keyed_jobs
    /\ StartPush(NewJob(ty, key), key, TRUE)
    /\ released' = [released EXCEPT
                        ![key] = {[id |-> r.id, fresh |-> FALSE] : r \in @}]

\* lookup_or_enqueue with a mapped key (jobs.rs:100-101): one statement.
LookupCoalesces(key, ty) ==
    /\ CanLock
    /\ key \in DOMAIN keyed_jobs
    /\ LookupOrEnqueue(key, ty)

\* The call goes on to self.create_new_task_handle(id, manager) (jobs.rs:75);
\* enqueue returns, lookup_or_enqueue has its insert left.
RegistersWaiter ==
    /\ call.step = "pushed"
    /\ Commit(create_new_task_handle(St, call.id, call.ty))
    /\ call' = IF call.insert THEN [call EXCEPT !.step = "registered"] ELSE Idle
    /\ UNCHANGED <<bits, running, aborted, allocs, issued, released, strict, direct,
                   completed>>

\* self.keyed_jobs.insert(key, handle.id) (jobs.rs:104); the call returns.
InsertsKey ==
    /\ call.step = "registered"
    /\ keyed_jobs' = Insert(keyed_jobs, call.key, call.id)
    /\ call' = Idle
    /\ UNCHANGED <<bits, last_task_id, result_senders, queue, handles, running,
                   aborted, panicked, allocs, issued, released, strict, direct,
                   completed>>

\* A running Executable reports: job_completed needs the registry to itself.
Completes ==
    /\ CanLock
    /\ Finish

\* Producers and workers interleaved at statement level: workers receive from
\* the queue without the registry, everything else goes through it.
StepNext ==
    \/ \E ty \in Types : EnqueueBegins(ty)
    \/ \E key \in Keys, ty \in Types : LookupBegins(key, ty)
    \/ \E key \in Keys, ty \in Types : LookupCoalesces(key, ty)
    \/ RegistersWaiter
    \/ InsertsKey
    \/ Dequeue
    \/ Completes

StepSpec ==
    /\ Init /\ [][StepNext]_vars
    /\ WF_vars(RegistersWaiter) /\ WF_vars(InsertsKey)
    /\ WF_vars(Dequeue) /\ WF_vars(Completes)

\* ------------------------------------------------------ derived notions
Range(seq) == {seq[i] : i \in DOMAIN seq}
\* Executables queued or running: pushed, and their own job_completed call
\* has not been made.
InFlight == Range(queue) \cup running
\* The Handles whose sender is still held under id.
Waiting(id) == Range(entry_or_default(result_senders, id))
HasResult(h) == handles[h].rx.tag \in {"Ok", "ErrArc"}

\* ================================================================ claims

\* ---------------------------------------------------------------- C1
\* No two Executables carrying the same key are in flight together.
OneExecutablePerKey ==
    \A e1 \in InFlight, e2 \in InFlight :
        (e1.key # None /\ e1.key = e2.key) => e1 = e2

\* A lookup_or_enqueue for a key whose keyed job (queued by an earlier
\* lookup_or_enqueue) is still in flight returns a Handle with that job's
\* id and pushes nothing.
CoalescesOntoInFlight ==
    \A key \in Keys, ty \in Types :
        (LookupOrEnqueue(key, ty) /\ \E e \in InFlight : e.job.key = key)
            => /\ queue' = queue
               /\ \A e \in InFlight :
                      e.job.key = key => Returned([handles |-> handles']).id = e.id

\* C1 as stated: single-flight.  Two lookup_or_enqueue calls with the same
\* key, the second issued before the first one's job has completed, return
\* Handles with the same JobId and exactly one Executable is pushed for the
\* key; at no reachable state are two Executables with the same key in flight.
C1_SingleFlight_Original ==
    [](OneExecutablePerKey) /\ [][CoalescesOntoInFlight]_vars

\* C1 amended: the same, as long as keyed jobs are submitted only through
\* lookup_or_enqueue and job_completed is called only by a dequeued
\* Executable with its own id and key.
C1_SingleFlight ==
    /\ [](strict => OneExecutablePerKey)
    /\ [][strict' => CoalescesOntoInFlight]_vars

\* Two pending Handles share the id of the one in-flight Executable of a key,
\* in a run that kept the discipline.
C1_Witness ==
    /\ strict
    /\ \E e \in InFlight, h1 \in DOMAIN handles, h2 \in DOMAIN handles :
          /\ e.job.key # None
          /\ keyed_jobs[e.key] = e.id
          /\ h1 # h2
          /\ {h1, h2} \subseteq Waiting(e.id)
          /\ handles[h1].id = e.id /\ handles[h2].id = e.id
          /\ allocs = 1

\* ---------------------------------------------------------------- C2
\* C2 as stated: guaranteed delivery.  With the worker pool dequeuing every
\* queued Executable and every Executable reporting its completion once,
\* every Handle created for the id of a job before that job's completion is
\* reported eventually receives a result (Ok or Err).  Stated here for the
\* Handles of the job's own result type only, which is the least the claim
\* asks.
C2_GuaranteedDelivery ==
    \A h \in 1 .. MaxHandles :
        (/\ h \in DOMAIN handles
         /\ handles[h].rx = Pending
         /\ \E e \in InFlight :
               e.id = handles[h].id /\ e.job.ty = handles[h].ty)
            ~> (h \in DOMAIN handles /\ HasResult(h))

\* ---------------------------------------------------------------- C3
\* C3 as stated: success fan-out.  When an Executable reports Ok(v), every
\* Handle waiting on its id receives Ok(v).  Stated here for the Handles of
\* the job's own result type only, which is the least the claim asks.
C3_SuccessFanOut ==
    [][\A e \in running, v \in Vals :
          Run(e, Ok(v)) =>
              \A h \in Waiting(e.id) :
                  handles[h].ty = e.job.ty => handles'[h].rx = Ok(v)]_vars

\* ---------------------------------------------------------------- C4
\* C4 as stated: error fan-out.  When an Executable reports Err(e), every
\* Handle waiting on its id, coalesced ones included, receives Err with the
\* shared error e; the failure is never lost nor replaced.  Stated here for
\* the Handles of the job's own error type only.
C4_ErrorFanOut ==
    [][\A e \in running, v \in Vals :
          Run(e, Err(v)) =>
              \A h \in Waiting(e.id) :
                  handles[h].ty = e.job.ty => handles'[h].rx = ErrArc(v)]_vars

\* ---------------------------------------------------------------- C5
\* A job_completed call with Some(key) leaves no entry for key.
KeyReleasedAtCompletion ==
    \A e \in running, result \in Results :
        (Run(e, result) /\ e.key # None) => e.key \notin DOMAIN keyed_jobs'

\* A job_completed call with Some(key), by anyone and for any id, leaves no
\* entry for key.
KeyReleasedByAnyCall ==
    \A id \in Ids, key \in Keys, ty \in Types, result \in Results :
        JobCompleted(id, key, ty, result) => key \notin DOMAIN keyed_jobs'

\* The first lookup_or_enqueue of a key after job_completed(X, Some(key))
\* pushes a new Executable and returns its id, the next counter value.  That
\* id is not X: always, or, when `always` is FALSE, whenever X is an id that
\* enqueue had handed out before and no more than 2^w ids have been
\* allocated, the new one included.
NextLookupIsNewJob(always) ==
    \A key \in Keys, ty \in Types :
        LookupOrEnqueue(key, ty) =>
            \A r \in released[key] :
                r.fresh =>
                    LET h == Returned([handles |-> handles'])
                    IN  /\ queue' = Append(queue,
                                ManagedJob(h.id, NewJob(ty, key), key))
                        /\ h.id = wrapping_add(last_task_id, 1)
                        /\ h.id = last_task_id'
                        /\ keyed_jobs'[key] = h.id
                        /\ (always \/ (r.id \in issued /\ allocs' <= Modulus))
                              => h.id # r.id

\* C5 as stated: once job_completed(X, Some(k), result) has run, k has no
\* entry and the next lookup_or_enqueue with key k pushes a new Executable
\* and returns a Handle whose JobId differs from X.
C5_KeyRelease_Original ==
    [][KeyReleasedAtCompletion /\ NextLookupIsNewJob(TRUE)]_vars

\* C5 amended: after job_completed(X, Some(k), result), whoever called it,
\* k has no entry and the next lookup_or_enqueue with key k pushes a new
\* Executable and returns the next counter value; that JobId differs from X
\* when X is an id that enqueue had handed out before and no more than 2^w
\* identifiers have been allocated in all (the counter has not come round to
\* X again).  It can be X when X was never handed out, or after a wrap.
C5_KeyRelease ==
    [][/\ KeyReleasedAtCompletion
       /\ KeyReleasedByAnyCall
       /\ NextLookupIsNewJob(FALSE)]_vars

\* A key was released by the completion of job X and lookup_or_enqueue has
\* since mapped it to a new job with another id.
C5_Witness ==
    \E key \in Keys : \E r \in released[key] :
        /\ ~r.fresh
        /\ r.id \in issued
        /\ allocs <= Modulus
        /\ key \in DOMAIN keyed_jobs
        /\ keyed_jobs[key] # r.id
        /\ \E e \in InFlight : e.key = key /\ e.id = keyed_jobs[key]

\* ---------------------------------------------------------------- C6
\* A key is mapped to id i exactly when the job submitted under that key with
\* id i has not yet had its completion reported.
MappedIffUnreported ==
    \A key \in Keys, i \in Ids :
        (key \in DOMAIN keyed_jobs /\ keyed_jobs[key] = i)
            <=> (\E e \in InFlight \cup aborted : e.key = key /\ e.id = i)

\* A mapping goes away only in the job_completed call of the job it names,
\* and that call removes it whatever the result.
RemovedByOwnCompletion ==
    /\ \A key \in Keys :
          (key \in DOMAIN keyed_jobs /\ key \notin DOMAIN keyed_jobs')
              => \E e \in running, result \in Results :
                    Run(e, result) /\ e.key = key /\ e.id = keyed_jobs[key]
    /\ KeyReleasedAtCompletion

\* C6 as stated: the dedup-map invariant, in every reachable state.
C6_DedupMap_Original ==
    [](MappedIffUnreported) /\ [][RemovedByOwnCompletion]_vars

\* C6 amended: the same, as long as keyed jobs are submitted only through
\* lookup_or_enqueue and job_completed is called only by a dequeued
\* Executable with its own id and key.  (job_completed(id, Some(k)) removes
\* whatever k maps to, and enqueue(job, Some(k)) records no mapping.)
C6_DedupMap ==
    /\ [](strict => MappedIffUnreported)
    /\ [][strict' => RemovedByOwnCompletion]_vars

\* In a run that kept the discipline, a key's job has completed and the key
\* is unmapped again, while another key is mapped to its in-flight job.
C6_Witness ==
    /\ strict
    /\ \E k1 \in Keys, k2 \in Keys :
          /\ released[k1] # {} /\ k1 \notin DOMAIN keyed_jobs
          /\ k2 \in DOMAIN keyed_jobs
          /\ \E e \in InFlight : e.key = k2 /\ e.id = keyed_jobs[k2]

\* ---------------------------------------------------------------- C7
\* C7 as stated: abort is observable.  Once the Executable of an id has been
\* destroyed without reporting, every Handle still pending on that id
\* eventually resolves to the "execution aborted" failure (RecvError).
C7_AbortObservable ==
    \A h \in 1 .. MaxHandles :
        (/\ h \in DOMAIN handles
         /\ handles[h].rx = Pending
         /\ \E e \in aborted : e.id = handles[h].id)
            ~> (h \in DOMAIN handles /\ handles[h].rx = RecvError)

\* ---------------------------------------------------------------- C8
\* What one enqueue call does: one Executable with the new id at the back of
\* the queue, one new Handle with that id, its sender the one waiter added
\* under that id, nothing else touched; the id is new while `unwrapped`.
EnqueueEffect(unwrapped) ==
    allocs' = allocs + 1 =>
        LET id == last_task_id'
            h == Len(handles) + 1
        IN  /\ unwrapped => id \notin issued
            /\ Len(queue') = Len(queue) + 1
            /\ \A i \in DOMAIN queue : queue'[i] = queue[i]
            /\ queue'[Len(queue')].id = id
            /\ Len(handles') = h
            /\ \A i \in DOMAIN handles : handles'[i] = handles[i]
            /\ handles'[h].id = id /\ handles'[h].rx = Pending
            /\ DOMAIN result_senders' = DOMAIN result_senders \cup {id}
            /\ result_senders'[id] = Append(entry_or_default(result_senders, id), h)
            /\ \A j \in DOMAIN result_senders \ {id} :
                  result_senders'[j] = result_senders[j]

\* The Executable carries the key the call was given.
EnqueueCarriesKey ==
    \A key \in OptKeys, ty \in Types :
        Enqueue(key, ty) => queue'[Len(queue')].key = key

\* C8 as stated: every enqueue call returns a JobId distinct from the one of
\* every other enqueue call, pushes exactly one Executable carrying that id
\* and the key, and registers exactly one Waiter for the returned Handle.
C8_Enqueue_Original ==
    [][EnqueueEffect(TRUE) /\ EnqueueCarriesKey]_vars

\* C8 amended: the returned JobId is the previous one plus 1 modulo 2^w, so it
\* is distinct from the earlier ones for the first 2^w calls only.
C8_Enqueue ==
    [][/\ EnqueueEffect(allocs' <= Modulus)
       /\ allocs' = allocs + 1 => last_task_id' = (last_task_id + 1) % Modulus
       /\ EnqueueCarriesKey]_vars

\* Two enqueue calls have returned different ids and both Executables are
\* queued.
C8_Witness ==
    /\ allocs = 2
    /\ Len(queue) = 2
    /\ queue[1].id # queue[2].id
    /\ Len(handles) = 2
    /\ handles[1].id = queue[1].id /\ handles[2].id = queue[2].id

\* ---------------------------------------------------------------- C9
\* A job_completed(id, key, ..) call, by anyone.
CompletionCall(id, key) ==
    \/ \E ty \in Types, result \in Results : JobCompleted(id, key, ty, result)
    \/ \E e \in running, result \in Results :
          e.id = id /\ e.key = key /\ Run(e, result)

\* C9 as stated: job_completed for an id without a waiter list leaves the
\* counter, both maps and the queue unchanged and delivers nothing, for
\* every key, even one mapped to a newer in-flight job.
C9_RepeatedCompletion_Original ==
    [][\A id \in Ids, key \in OptKeys :
          (id \notin DOMAIN result_senders /\ CompletionCall(id, key))
              => UNCHANGED <<last_task_id, keyed_jobs, result_senders, queue,
                             handles>>]_vars

\* C9 amended: such a call leaves the counter, the id -> waiters map and the
\* queue unchanged and delivers nothing; with key None the key -> id map is
\* unchanged too, with Some(k) the entry of k is removed if there is one,
\* whichever job it names.
C9_RepeatedCompletion ==
    [][\A id \in Ids, key \in OptKeys :
          (id \notin DOMAIN result_senders /\ CompletionCall(id, key))
              => /\ UNCHANGED <<last_task_id, result_senders, queue, handles,
                                panicked>>
                 /\ keyed_jobs' = [k \in (DOMAIN keyed_jobs) \ {key}
                                      |-> keyed_jobs[k]]]_vars

\* One job, one Handle, one direct job_completed call and the job's own:
\* at least one of the two calls found no waiter list.
C9_Witness ==
    /\ direct = 1
    /\ allocs = 1
    /\ Len(handles) = 1
    /\ InFlight = {}
    /\ HasResult(1)

\* ---------------------------------------------------------------- C10
\* C10 as stated: type recovery never fails.  The checked downcast in
\* job_completed succeeds for every waiter it drains, also for waiters that
\* lookup_or_enqueue attached for a keyed job of another type: unwrap never
\* panics.
C10_TypeRecoveryNeverFails == panicked = FALSE

\* ---------------------------------------------------------------- C11
\* job_completed has run for id at some point, whether or not it found a
\* waiter list and whether or not any Handle of id was still held.
Completed(id) == id \in completed

\* Every Handle that is still pending has its id's entry in result_senders,
\* and an entry goes away only in the job_completed call for its id.
EntryLivesUntilCompletion ==
    /\ \A h \in DOMAIN handles' :
          handles'[h].rx = Pending => handles'[h].id \in DOMAIN result_senders'
    /\ \A id \in DOMAIN result_senders :
          id \notin DOMAIN result_senders'
              => \E e \in running, result \in Results : e.id = id /\ Run(e, result)

\* job_completed removes the entry and delivers to its waiters in the same
\* step (stated for the waiters of the job's own type).
DrainedWithRemoval ==
    \A e \in running, result \in Results :
        Run(e, result) =>
            /\ e.id \notin DOMAIN result_senders'
            /\ \A h \in Waiting(e.id) :
                  handles[h].ty = e.job.ty
                      => handles'[h].rx = map_err_Arc(result)

\* The entry of an id whose completion has been reported is not created again.
NeverRecreated ==
    \A id \in Ids :
        (Completed(id) /\ id \notin DOMAIN result_senders)
            => id \notin DOMAIN result_senders'

\* C11 as stated: waiter-list lifecycle.  The entry of an id exists from the
\* creation of its first Handle until job_completed is reported for the id;
\* job_completed removes the entry and delivers to all its waiters in one
\* step; the entry is removed once and never re-created after completion.
C11_WaiterListLifecycle ==
    [][EntryLivesUntilCompletion /\ DrainedWithRemoval /\ NeverRecreated]_vars

\* ---------------------------------------------------------------- C12
\* C12 as stated: best-effort delivery.  When some Handles of an id were
\* discarded before its job_completed runs, the call still completes without
\* error, still removes the waiter list and the key mapping, every Handle
\* that was not discarded still receives the result (stated for the Handles
\* of the job's own type), and a discarded Handle receives nothing.
C12_BestEffortDelivery ==
    [][\A e \in running, result \in Results :
          (Run(e, result) /\ \E d \in Waiting(e.id) : handles[d].rx = Dropped)
              => /\ panicked' = panicked
                 /\ e.id \notin DOMAIN result_senders'
                 /\ e.key # None => e.key \notin DOMAIN keyed_jobs'
                 /\ \A h \in Waiting(e.id) :
                       /\ handles[h].rx = Dropped => handles'[h] = handles[h]
                       /\ (handles[h].rx = Pending /\ handles[h].ty = e.job.ty)
                             => handles'[h].rx = map_err_Arc(result)]_vars

\* ---------------------------------------------------------------- C13
\* The Executable of the n-th submitted job, while it is queued or running.
InFlightJob(n) == {e \in InFlight : e.job.n = n}

\* Every Handle handed out for id has been dropped by its owner.
AllDropped(id) ==
    /\ \E h \in DOMAIN handles : handles[h].id = id
    /\ \A h \in DOMAIN handles : handles[h].id = id => handles[h].rx = Dropped

\* The registry still holds everything of a job whose Handles have all been
\* dropped: its Executable is queued or with a worker, its key is mapped to
\* its id and, while no id has been handed out twice, the senders of all its
\* Handles are still in the waiter list of its id.  (What dropping a Handle
\* does is not in jobs.rs; that no method of Jobs reacts to it is.)
ForgottenStaysRegistered ==
    \A e \in InFlight :
        AllDropped(e.id) =>
            /\ e.key # None => (/\ e.key \in DOMAIN keyed_jobs
                                /\ keyed_jobs[e.key] = e.id)
            /\ allocs <= Modulus =>
                  /\ e.id \in DOMAIN result_senders
                  /\ \A h \in DOMAIN handles :
                        handles[h].id = e.id => h \in Waiting(e.id)

\* Such an Executable leaves the queue only from its front, into the hands of
\* a worker, and leaves the worker only by reporting its completion.
ForgottenStillRuns ==
    \A e \in InFlight :
        AllDropped(e.id) =>
            /\ (e \in Range(queue) /\ e \notin Range(queue'))
                  => (e = Head(queue) /\ e \in running')
            /\ (e \in running /\ e \notin running')
                  => \E result \in Results : Run(e, result)

\* The completion of a job whose Handles are all dropped still removes its
\* key mapping and its waiter list.
ForgottenStillCleansUp ==
    \A e \in running, result \in Results :
        (Run(e, result) /\ AllDropped(e.id)) =>
            /\ e.id \notin DOMAIN result_senders'
            /\ e.key # None => e.key \notin DOMAIN keyed_jobs'

QueueInSubmissionOrder ==
    \A i \in DOMAIN queue : queue[i].job.n = allocs - Len(queue) + i

\* The id of the n-th pushed Executable is n modulo 2^w: up to the wrap the
\* ids in the queue increase from front to back.
QueueInIdOrder ==
    /\ \A i \in DOMAIN queue : queue[i].id = queue[i].job.n % Modulus
    /\ allocs < Modulus =>
          \A i \in DOMAIN queue, j \in DOMAIN queue :
              i < j => queue[i].id < queue[j].id

\* A push adds the new Executable at the back and moves nothing.
PushAtBack ==
    Len(queue') > Len(queue) =>
        /\ Len(queue') = Len(queue) + 1
        /\ \A i \in DOMAIN queue : queue'[i] = queue[i]
        /\ queue'[Len(queue')].job.n = allocs'

\* The consumer receives the Executable at the front, which was submitted
\* before every Executable left in the queue.
DequeueTakesOldest ==
    Len(queue') < Len(queue) =>
        /\ queue' = Tail(queue)
        /\ running' = running \cup {Head(queue)}
        /\ \A i \in DOMAIN queue' : Head(queue).job.n < queue'[i].job.n

\* C14, queue order: Executables enter the queue in the order in which the
\* enqueue / lookup_or_enqueue calls that created them ran, the consumer
\* dequeues them in that same order, and while the counter has not wrapped
\* this is increasing JobId order.
C14_QueueOrder ==
    /\ [](QueueInSubmissionOrder /\ QueueInIdOrder)
    /\ [][PushAtBack /\ DequeueTakesOldest]_vars

\* Three jobs were submitted before any wrap, the first has been dequeued
\* and the other two wait in the queue in submission order, which is
\* increasing id order.
C14_Witness ==
    /\ allocs = 3
    /\ allocs < Modulus
    /\ queue[1].id = 2 /\ queue[2].id = 3
    /\ Len(queue) = 2
    /\ queue[1].job.n = 2 /\ queue[2].job.n = 3
    /\ \E e \in running : e.job.n = 1

\* ---------------------------------------------------------------- C15
\* Within a call the Executable is pushed before the waiter is registered,
\* and the key is inserted after both.
PushThenRegisterThenInsert ==
    /\ Len(queue') > Len(queue) =>
          /\ call'.step = "pushed"
          /\ result_senders' = result_senders /\ keyed_jobs' = keyed_jobs
    /\ (call.step = "pushed" /\ call' # call) =>
          /\ Len(handles') = Len(handles) + 1
          /\ keyed_jobs' = keyed_jobs
          /\ call.insert => call.key \notin DOMAIN keyed_jobs
    /\ (call.step = "registered" /\ call' # call) =>
          /\ handles' = handles
          /\ keyed_jobs' = Insert(keyed_jobs, call.key, call.id)

\* When the call that pushed an Executable returns, the Executable has not
\* completed, its Handle is registered and pending, and its key is mapped.
CallReturnsRegistered ==
    (call # Idle /\ call' = Idle) =>
        /\ \E e \in Range(queue') \cup running' :
              e.id = call.id /\ e.job.n = allocs'
        /\ Returned([handles |-> handles']).id = call.id
        /\ Returned([handles |-> handles']).rx = Pending
        /\ call.id \in DOMAIN result_senders'
        /\ Len(handles') \in Range(result_senders'[call.id])
        /\ call.insert => (/\ call.key \in DOMAIN keyed_jobs'
                           /\ keyed_jobs'[call.key] = call.id)

\* job_completed takes effect only after the call that pushed its Executable
\* has returned; while no id has been handed out twice, it finds the id's
\* waiter list and the key mapped to the id.
CompletionAfterCall ==
    \A e \in running, result \in Results :
        Run(e, result) =>
            /\ ~(call # Idle /\ e.job.n = allocs)
            /\ allocs <= Modulus =>
                  /\ e.id \in DOMAIN result_senders
                  /\ e.key # None => (/\ e.key \in DOMAIN keyed_jobs
                                      /\ keyed_jobs[e.key] = e.id)

\* A mapped key belongs to a job that has not completed.
NoMappingSurvives ==
    \A key \in DOMAIN keyed_jobs :
        \E e \in InFlight : e.key = key /\ e.id = keyed_jobs[key]

\* C15, atomicity against the worker: enqueue pushes before it registers the
\* waiter and lookup_or_enqueue inserts the key after that; since the calls
\* exclude each other, in every interleaving with workers that dequeue
\* without the registry job_completed takes effect only after the waiter is
\* registered and the key inserted, so no returned Handle stays pending for
\* ever and no key mapping survives the completion of its job.
C15_AtomicAgainstWorker ==
    /\ [][/\ PushThenRegisterThenInsert
          /\ CallReturnsRegistered
          /\ CompletionAfterCall]_vars
    /\ [](NoMappingSurvives)
    /\ \A h \in 1 .. MaxHandles :
          (h \in DOMAIN handles) ~> (h \in DOMAIN handles /\ handles[h].rx # Pending)

\* A worker already holds the Executable of a lookup_or_enqueue call that has
\* registered its waiter and has not inserted its key yet.
C15_Witness ==
    /\ call.step = "registered"
    /\ call.key \notin DOMAIN keyed_jobs
    /\ \E e \in running : e.job.n = allocs /\ e.id = call.id /\ e.key = call.key

\* ---------------------------------------------------------------- C16
\* The counter is the number of enqueue calls so far, modulo 2^w.
CounterIsCallCount == last_task_id = allocs % Modulus

\* The n-th enqueue call returns n modulo 2^w, on the Handle and on the
\* Executable alike, whether or not that id is still present in the maps:
\* 1 first, then the previous id plus 1, and 0 after the maximum.
NthCallReturnsN ==
    allocs' = allocs + 1 =>
        LET id == Returned([handles |-> handles']).id
        IN  /\ id = allocs' % Modulus
            /\ queue'[Len(queue')].id = id
            /\ allocs = 0 => id = 1
            /\ last_task_id < Modulus - 1 => id = last_task_id + 1
            /\ last_task_id = Modulus - 1 => id = 0

\* C16, identifier allocation: from a fresh registry the n-th enqueue returns
\* JobId n modulo 2^w; the first id is 1, each later one the previous plus 1,
\* after the maximum the counter wraps to 0 and goes on, and nothing checks
\* the new id against the ids still present in the two maps.
C16_IdAllocation ==
    [](CounterIsCallCount) /\ [][NthCallReturnsN]_vars

\* The counter has wrapped and handed out again an id that is still in use:
\* two queued Executables and two pending Handles carry the same id, which is
\* also still mapped from a key.
C16_Witness ==
    /\ allocs = Modulus + 1
    /\ Len(queue) = allocs
    /\ queue[1].id = queue[allocs].id
    /\ queue[1].job.n # queue[allocs].job.n
    /\ Len(result_senders[queue[1].id]) = 2
    /\ \E key \in DOMAIN keyed_jobs : keyed_jobs[key] = queue[1].id

\* ---------------------------------------------------------------- C17
\* C17: lookup_or_enqueue on a key that is already mapped only adds a waiter.
\* The counter, the queue and the key -> id map are unchanged, exactly one
\* waiter (the one of the returned Handle) is appended to the list of the
\* mapped id, the lists of all other ids are unchanged, and the submitted job
\* is neither queued nor handed to a worker.
C17_MappedLookupAddsWaiter ==
    [][\A key \in Keys, ty \in Types :
          (LookupOrEnqueue(key, ty) /\ key \in DOMAIN keyed_jobs) =>
              LET id == keyed_jobs[key]
                  h == Len(handles) + 1
              IN  /\ UNCHANGED <<last_task_id, queue, keyed_jobs, running>>
                  /\ handles' = Append(handles, NewHandle(id, ty))
                  /\ DOMAIN result_senders' = DOMAIN result_senders \cup {id}
                  /\ result_senders'[id] =
                         Append(entry_or_default(result_senders, id), h)
                  /\ \A i \in DOMAIN result_senders \ {id} :
                        result_senders'[i] = result_senders[i]
                  /\ \A e \in InFlight' : e.job # NewJob(ty, key)]_vars

\* One keyed job was submitted and two more lookup_or_enqueue calls for its
\* key have each added their waiter to its list.
C17_Witness ==
    /\ allocs = 1
    /\ Len(queue) = 1
    /\ queue[1].key \in DOMAIN keyed_jobs
    /\ keyed_jobs[queue[1].key] = queue[1].id
    /\ result_senders[queue[1].id] = <<1, 2, 3>>
    /\ \A h \in 1 .. 3 : handles[h].id = queue[1].id /\ handles[h].rx = Pending

\* ---------------------------------------------------------------- C18
\* A Handle leaves Pending only in a job_completed call for its own id.
ResolvedOnlyByOwnCompletion ==
    \A h \in DOMAIN handles :
        (handles[h].rx = Pending /\ handles'[h].rx # Pending)
            => \E key \in OptKeys : CompletionCall(handles[h].id, key)

\* The step that resolves a Handle, a job_completed call for its id, leaves
\* the Handles of all other ids as they are.
OtherIdsUntouched ==
    \A h \in DOMAIN handles, g \in DOMAIN handles :
        (handles'[h] # handles[h] /\ handles[g].id # handles[h].id)
            => handles'[g] = handles[g]

\* C18, no spurious resolution: a Handle for id i is resolved only by a
\* job_completed call for i made after its waiter was registered; a Handle
\* from create_new_task_handle for an id that is not completed (again) stays
\* pending whatever is reported for other ids.
C18_NoSpuriousResolution ==
    [][ResolvedOnlyByOwnCompletion /\ OtherIdsUntouched]_vars

\* A Handle taken for id 0, which no job has, is still pending after the job
\* with id 1 has completed and resolved its own Handle.
C18_Witness ==
    /\ allocs = 1
    /\ InFlight = {}
    /\ \E h \in DOMAIN handles : handles[h].id = 0 /\ handles[h].rx = Pending
    /\ \E h \in DOMAIN handles : handles[h].id = 1 /\ HasResult(h)
    /\ 0 \in DOMAIN result_senders

\* ---------------------------------------------------------------- C19
\* The sender of a Handle is held in result_senders, once and under the
\* Handle's id, exactly as long as the Handle is pending.
SenderHeldWhilePending ==
    \A h \in DOMAIN handles :
        /\ (handles[h].rx = Pending) <=> (h \in Waiting(handles[h].id))
        /\ \A id \in DOMAIN result_senders :
              \A i \in DOMAIN result_senders[id] :
                  result_senders[id][i] = h =>
                      /\ id = handles[h].id
                      /\ \A j \in DOMAIN result_senders[id] :
                            result_senders[id][j] = h => j = i

\* What a Handle has received is never changed nor followed by anything else.
ResolvedIsFinal ==
    \A h \in DOMAIN handles :
        handles[h].rx # Pending => handles'[h] = handles[h]

\* The step that removes the list of an id consumes every sender in it.
RemovedMeansConsumed ==
    \A id \in DOMAIN result_senders :
        id \notin DOMAIN result_senders' =>
            \A h \in Waiting(id) : handles'[h].rx # Pending

\* C19: each Handle receives at most one result.  Its one-shot sender is
\* removed from the registry and consumed by the first job_completed for its
\* id, so later job_completed calls for that id, with any result, neither
\* deliver a second value to it nor change what it received.
C19_AtMostOneResult ==
    /\ [](SenderHeldWhilePending)
    /\ [][ResolvedIsFinal /\ RemovedMeansConsumed]_vars

\* Two job_completed calls were made for one id with different results: the
\* Handle resolved by the first still holds Ok, the Handle registered in
\* between holds the Err of the second.
C19_Witness ==
    \E h \in DOMAIN handles, g \in DOMAIN handles :
        /\ h < g
        /\ handles[h].id = handles[g].id
        /\ handles[h].ty = handles[g].ty
        /\ handles[h].rx.tag = "Ok"
        /\ handles[g].rx.tag = "ErrArc"

\* ---------------------------------------------------------------- C20
\* Every mapped key's id has a non-empty waiter list.
MappedHasWaiters ==
    \A key \in DOMAIN keyed_jobs :
        /\ keyed_jobs[key] \in DOMAIN result_senders
        /\ result_senders[keyed_jobs[key]] # <<>>

\* A coalescing lookup_or_enqueue attaches its waiter to the id of an
\* Executable with that key that is still to report.
CoalescesOntoLiveJob ==
    \A key \in Keys, ty \in Types :
        (LookupOrEnqueue(key, ty) /\ key \in DOMAIN keyed_jobs) =>
            \E e \in InFlight :
                /\ e.key = key
                /\ e.id = Returned([handles |-> handles']).id

\* C20 as stated: when keyed jobs are submitted only through
\* lookup_or_enqueue and job_completed is called only by a dequeued
\* Executable with its own id and key, in every reachable state each entry
\* k -> i has a non-empty waiter list for i and the Executable with id i and
\* key k is in flight; so a coalescing lookup_or_enqueue never attaches a
\* waiter to an id that will not be completed.
C20_RestrictedInvariant_Original ==
    /\ [](strict => (MappedHasWaiters /\ NoMappingSurvives))
    /\ [][strict' => CoalescesOntoLiveJob]_vars

\* C20 amended: the waiter list of a mapped id is there and non-empty while
\* no more than 2^w ids have been allocated (no id has been handed out
\* twice); the rest holds as stated.
C20_RestrictedInvariant ==
    /\ []((strict /\ allocs <= Modulus) => MappedHasWaiters)
    /\ [](strict => NoMappingSurvives)
    /\ [][strict' => CoalescesOntoLiveJob]_vars

\* Under the discipline and before any wrap, two keys are mapped to their two
\* in-flight jobs, each with its waiter, and one of them has a coalesced
\* second waiter.
C20_Witness ==
    /\ strict
    /\ allocs = 2
    /\ DOMAIN keyed_jobs = Keys
    /\ \A key \in Keys : \E e \in InFlight : e.key = key /\ e.id = keyed_jobs[key]
    /\ \E key \in Keys : Len(result_senders[keyed_jobs[key]]) = 2
    /\ \A h \in DOMAIN handles : handles[h].rx = Pending

\* ---------------------------------------------------------------- C21
\* No two distinct keys are mapped to the same id.
KeyMapInjective ==
    \A k1 \in DOMAIN keyed_jobs, k2 \in DOMAIN keyed_jobs :
        keyed_jobs[k1] = keyed_jobs[k2] => k1 = k2

\* The ids that appear in the key -> id map or in the id -> waiters map.
IdsInMaps == {keyed_jobs[key] : key \in DOMAIN keyed_jobs} \cup DOMAIN result_senders

\* C21: as long as the counter has not wrapped, the key -> id map is
\* injective and every id in the key -> id map or in the id -> waiters map
\* lies in 1..last_task_id, after any sequence of enqueue, lookup_or_enqueue
\* and job_completed calls (create_new_task_handle called only internally).
\* In general the ids in the maps are ids that enqueue has handed out, and
\* the key -> id map is injective as long as no id has been handed out twice.
C21_KeyMapInjectiveInRange ==
    /\ allocs < Modulus =>
          /\ KeyMapInjective
          /\ IdsInMaps \subseteq 1 .. last_task_id
          /\ issued = 1 .. last_task_id
    /\ allocs <= Modulus => KeyMapInjective
    /\ IdsInMaps \subseteq issued

\* Before any wrap (two allocations on the wider counter), two keys are
\* mapped to the two different ids handed out so far, each id with its
\* waiter list and within 1..last_task_id, after a completion was reported
\* directly.
C21_Witness ==
    /\ allocs = 2
    /\ allocs < Modulus
    /\ last_task_id = 2
    /\ direct = 1
    /\ DOMAIN keyed_jobs = Keys
    /\ IdsInMaps = 1 .. last_task_id
    /\ \A k1 \in Keys, k2 \in Keys : k1 # k2 => keyed_jobs[k1] # keyed_jobs[k2]
    /\ \A key \in Keys : keyed_jobs[key] \in DOMAIN result_senders

====
